---- MODULE Spec2Model ----
(***************************************************************************)
(* A model of the grading and scoring subsystem of quiz_ai:                *)
(*   - the deterministic auto-grader of multiple-choice answers            *)
(*     (quizapp/models.py, StudentAnswer.auto_grade, GroupAnswer.auto_grade)*)
(*   - the group-test grading pass (quizapp/llm_service.py,                *)
(*     grade_group_test, grade_question_with_context,                      *)
(*     calculate_final_scores) as driven by webapp/views.py,               *)
(*     take_group_test_view.                                               *)
(*                                                                         *)
(* Python floats are modelled as exact rationals <<num, den>> in lowest    *)
(* terms; for the values the model draws (scores 0, 60, 80, 100 on         *)
(* questions worth 0, 1 or 10 points) the float results of the code are    *)
(* exactly these rationals.                                                *)
(***************************************************************************)
EXTENDS Integers, Sequences, FiniteSets, TLC

\* ---------------------------------------------------------------- bounds
\* Number of questions of the test behind the group test.
NumQuestions == 2
MaxGroupAttempts == 3
MaxAttemptRows == 2
MaxStarting == 2
MaxSubmissions == 2
\* Largest option index a multiple-choice answer may select.
MaxOption == 3

Questions == 1..NumQuestions

\* The users that open the group test page.
Students == {"amy", "bob"}

\* User.get_full_name(): the display name the grading prompt shows and the
\* model's answer is matched against.
FullName(s) == IF s = "amy" THEN "Amy Lee" ELSE "Bob Ray"

\* Question.points is an IntegerField without validators: the group-test
\* creation view stores 10, generated tests default to 1, and the admin site
\* (QuestionAdmin) lets any integer, 0 included, be stored.
PointsSet == {0, 1, 10}

\* ------------------------------------------------------------ rationals
Abs(n) == IF n < 0 THEN -n ELSE n

RECURSIVE GCD(_, _)
GCD(a, b) == IF b = 0 THEN a ELSE GCD(b, a % b)

\* The float n / d (d > 0) as a fraction in lowest terms.
Rat(n, d) == LET g == GCD(Abs(n), d) IN <<n \div g, d \div g>>

RatInt(n) == <<n, 1>>

RatAdd(x, y) == Rat(x[1] * y[2] + y[1] * x[2], x[2] * y[2])

RatDivInt(x, k) == Rat(x[1], x[2] * k)

\* round(n / d) as Python rounds: to the nearest integer, a half to the even
\* neighbour (n >= 0, d > 0).
RoundHalfEven(n, d) ==
    LET f == n \div d
        twice == 2 * (n - f * d)
    IN  IF twice < d THEN f
        ELSE IF twice > d THEN f + 1
        ELSE IF f % 2 = 0 THEN f ELSE f + 1

\* ------------------------------------------------- the model's response
\* A JSON value read with float(d.get(key, 0)): a number, an absent key, or
\* something float() rejects (a non-numeric string, null, a list).
Num(v) == [t |-> "num", v |-> v]
Absent == [t |-> "absent", v |-> 0]
NotNumber == [t |-> "str", v |-> 0]

ModelFeedback == "Well argued"
FallbackFeedback == "Graded by fallback (AI unavailable)"

Entry(name, score) == [student_name |-> name, score |-> score, feedback |-> ModelFeedback]

\* generate_content raised (network, timeout, quota).
CallFailed == [kind |-> "error", group_score |-> Absent, individual_scores |-> <<>>]
\* The text is not JSON, or is JSON that is no object.
Unparseable == [kind |-> "text", group_score |-> Absent, individual_scores |-> <<>>]
Parsed(gs, entries) == [kind |-> "json", group_score |-> gs, individual_scores |-> entries]
\* No call was made for the question in this pass.
NotCalled == [kind |-> "none", group_score |-> Absent, individual_scores |-> <<>>]

\* The outcomes of one model call that the model explores.
Responses ==
    { CallFailed,
      Unparseable,
      Parsed(Num(80), << Entry("Amy Lee", Num(90)), Entry("Bob Ray", Num(70)) >>),
      Parsed(Num(60), << Entry("Amy Lee", Num(70)), Entry("Bob Ray", Num(90)) >>),
      Parsed(Num(150), << Entry("Amy Lee", Num(120)), Entry("Bob Ray", Num(-5)) >>),
      Parsed(Num(-20), << Entry("Nobody", Num(90)), Entry("Bob Ray", Num(70)) >>),
      Parsed(Absent, << Entry("Amy Lee", Absent) >>),
      Parsed(Num(80), << Entry("Amy Lee", Num(90)), Entry("Bob Ray", NotNumber) >>),
      Parsed(NotNumber, << >>) }

\* ---------------------------------------------------------------- state
VARIABLES
    points,                 \* Question.points of each question
    groupAnswers,           \* GroupAnswer row of each question (exists or not)
    opinions,               \* IndividualOpinion row of each (question, student)
    members,                \* GroupMember row of each student
    group_score_percentage, \* GroupAttempt.group_score_percentage
    is_completed,           \* GroupAttempt.is_completed
    pc,                     \* where the finish_test request stands
    cur,                    \* the question whose model call is in flight
    modelOutcome,           \* what the model answered for each question
    question,               \* a multiple-choice question of an assigned test
    studentAnswer,          \* the StudentAnswer row of that question
    choiceAnswer,           \* the GroupAnswer row of that question
    test,                   \* the questions of an assigned test, by position
    allow_retakes,          \* Assignment.allow_retakes
    max_attempts,           \* Assignment.max_attempts (0: no limit)
    attempts,               \* the StudentAttempt rows, in order of creation
    answers,                \* the StudentAnswer rows, listed by attempt and question
    starting,               \* start requests between their count and their create
    now,                    \* the clock: the number of completions so far
    max_group_size,         \* GroupTest.max_group_size
    groupAttempts,          \* the GroupAttempt rows of a group test, in order of creation
    requests,               \* each student's request to take_group_test_view under way
    pages                   \* the last response of take_group_test_view to each student

\* The group attempt and its grading pass.
groupVars == << points, groupAnswers, opinions, members, group_score_percentage,
                is_completed, pc, cur, modelOutcome >>

\* The auto-graded answers.
choiceVars == << question, studentAnswer, choiceAnswer >>

\* The individual attempts on one assignment.
attemptVars == << test, allow_retakes, max_attempts, attempts, answers, starting, now >>

\* The attempts of one group test and the requests of its students.
joinVars == << max_group_size, groupAttempts, requests, pages >>

vars == << groupVars, choiceVars, attemptVars, joinVars >>

NoAnswer == [exists |-> FALSE, is_correct |-> FALSE, points_earned |-> 0]
NewAnswer == [exists |-> TRUE, is_correct |-> FALSE, points_earned |-> 0]
NoOpinion == [exists |-> FALSE, score_percentage |-> 0, ai_feedback |-> ""]
NewOpinion == [exists |-> TRUE, score_percentage |-> 0, ai_feedback |-> ""]
NoMember == [exists |-> FALSE, individual_score_percentage |-> RatInt(0),
             has_submitted_all_opinions |-> FALSE]
NewMember == [exists |-> TRUE, individual_score_percentage |-> RatInt(0),
              has_submitted_all_opinions |-> FALSE]
NoChoice == [exists |-> FALSE, selected_option |-> 0, is_correct |-> FALSE,
             points_earned |-> 0]

\* A group test whose attempt was just created: nobody joined yet.
GroupInit ==
    /\ points \in [Questions -> PointsSet]
    /\ groupAnswers = [q \in Questions |-> NoAnswer]
    /\ opinions = [q \in Questions |-> [s \in Students |-> NoOpinion]]
    /\ members = [s \in Students |-> NoMember]
    /\ group_score_percentage = RatInt(0)
    /\ is_completed = FALSE
    /\ pc = "idle"
    /\ cur = 0
    /\ modelOutcome = [q \in Questions |-> NotCalled]

QuestionTypes == {"mcq", "truefalse", "text"}

\* A question of any type, correct option and point value, not yet answered.
ChoiceInit ==
    /\ question \in [question_type : QuestionTypes,
                     correct_option : 0..MaxOption,
                     points : PointsSet]
    /\ studentAnswer = NoChoice
    /\ choiceAnswer = NoChoice

\* The start requests that can be under way at once.
Slots == 1..MaxStarting

NoStart == [active |-> FALSE, student |-> "", existing |-> 0, via |-> ""]

\* The fields of a GroupAttempt a request holds in memory; nothing read yet.
NoObject == [is_started |-> FALSE, is_completed |-> FALSE]

\* No request of the student is under way.
NoRequest == [pc |-> "none", action |-> "", attempt |-> 0, obj |-> NoObject,
              created |-> FALSE, current_size |-> 0]

\* A group test nobody has opened.
NoJoins ==
    /\ max_group_size = 10
    /\ groupAttempts = << >>
    /\ requests = [s \in Students |-> NoRequest]
    /\ pages = [s \in Students |-> "none"]

\* An assignment nobody has started, of a test of one-point questions, and
\* a group test nobody has opened.
NoAttempts ==
    /\ test = [q \in Questions |->
                 [question_type |-> "mcq", correct_option |-> 0, points |-> 1]]
    /\ allow_retakes = TRUE
    /\ max_attempts = 0
    /\ attempts = << >>
    /\ answers = << >>
    /\ starting = [n \in Slots |-> NoStart]
    /\ now = 0
    /\ NoJoins

\* In the grading specification the auto-graded question and the individual
\* attempts are left alone.
Init ==
    /\ GroupInit
    /\ question = [question_type |-> "mcq", correct_option |-> 0, points |-> 1]
    /\ studentAnswer = NoChoice
    /\ choiceAnswer = NoChoice
    /\ NoAttempts

\* ------------------------------------------- grade_question_with_context
\* float(d.get(key, 0)): an absent key reads as 0, a non-number raises.
ToFloat(x) ==
    IF x.t = "num" THEN [ok |-> TRUE, v |-> x.v]
    ELSE IF x.t = "absent" THEN [ok |-> TRUE, v |-> 0]
    ELSE [ok |-> FALSE, v |-> 0]

\* max(0, score): the upper bound left out.
ClampLowerOnly(v) == IF v < 0 THEN 0 ELSE v

\* min(100, score): the lower bound left out.
ClampUpperOnly(v) == IF v > 100 THEN 100 ELSE v

\* max(0, min(100, score))
Clamp(v) == IF v > 100 THEN 100 ELSE IF v < 0 THEN 0 ELSE v

\* The threshold of the earlier version of the grader, strict.
PassesThresholdAbove80(gs) == gs > 80

\* group_answer.is_correct = (group_score >= 70)
PassesThreshold(gs) == gs >= 70

\* round((group_score / 100) * question.points), halves rounded up.
PointsFromScoreRounded(gs, p) == (gs * p + 50) \div 100

\* int((group_score / 100) * question.points), group_score in 0..100
PointsFromScore(gs, p) == (gs * p) \div 100

\* Half the points rounded up instead of truncated.
HalfPointsRoundedUp(p) == (p + 1) \div 2

\* int(question.points * 0.5)
HalfPoints(p) == p \div 2

\* The filter without its question: every opinion of the attempt.
AttemptOpinions(all, q) ==
    [k \in {x \in Questions \X Students : all[x[1]][x[2]].exists} |-> all[k[1]][k[2]]]

\* IndividualOpinion.objects.filter(group_attempt=..., question=question):
\* the rows grade_group_test hands to grade_question_with_context, as a
\* function from their (question, student) key.
QuestionOpinions(all, q) ==
    [k \in {x \in {q} \X Students : all[x[1]][x[2]].exists} |-> all[k[1]][k[2]]]

\* The except branch sparing what the try block saved: an opinion that
\* already carries the model's feedback keeps it.
FallbackGradeKeepsSaved(p, ga, ops) ==
    [ok |-> FALSE,
     group_answer |-> [ga EXCEPT !.is_correct = FALSE, !.points_earned = HalfPoints(p)],
     opinions |-> [k \in DOMAIN ops |->
                     IF ops[k].ai_feedback = ModelFeedback THEN ops[k]
                     ELSE [ops[k] EXCEPT !.score_percentage = 50,
                                         !.ai_feedback = FallbackFeedback]]]

\* The except branch: the group answer is marked incorrect with half the
\* points and every opinion handed in gets 50 and the fallback text.
FallbackGrade(p, ga, ops) ==
    [ok |-> FALSE,
     group_answer |-> [ga EXCEPT !.is_correct = FALSE, !.points_earned = HalfPoints(p)],
     opinions |-> [k \in DOMAIN ops |->
                     [ops[k] EXCEPT !.score_percentage = 50,
                                    !.ai_feedback = FallbackFeedback]]]

\* The name not compared: every opinion handed in matches.
MatchingAnyOpinion(ops, name) == DOMAIN ops

\* The opinions whose student's display name is the given one.
MatchingOpinion(ops, name) == {k \in DOMAIN ops : FullName(k[2]) = name}

\* The loop over individual_scores from entry i on: each entry's score is
\* read, clamped and saved on the first opinion its student_name matches; an
\* entry matching no opinion is dropped; a score float() rejects raises.
RECURSIVE ApplyScores(_, _, _)
ApplyScores(entries, i, ops) ==
    IF i > Len(entries) THEN [ok |-> TRUE, opinions |-> ops]
    ELSE LET e == entries[i]
             f == ToFloat(e.score)
             m == MatchingOpinion(ops, e.student_name)
         IN  IF ~f.ok THEN [ok |-> FALSE, opinions |-> ops]
             ELSE IF m = {} THEN ApplyScores(entries, i + 1, ops)
             ELSE LET k == CHOOSE x \in m : \A y \in m : x[1] <= y[1]
                  IN  ApplyScores(entries, i + 1,
                          [ops EXCEPT ![k] = [@ EXCEPT !.score_percentage = Clamp(f.v),
                                                       !.ai_feedback = e.feedback]])

\* Grading one question worth p points, with GroupAnswer ga and opinions ops,
\* from the model's outcome resp: the rows as they are stored when the
\* function returns, and its return value (ok).
GradeQuestionWithContext(p, ga, ops, resp) ==
    IF resp.kind # "json" THEN FallbackGrade(p, ga, ops)
    ELSE LET g == ToFloat(resp.group_score)
         IN  IF ~g.ok THEN FallbackGrade(p, ga, ops)
             ELSE LET gs == Clamp(g.v)
                      ga1 == [ga EXCEPT !.is_correct = PassesThreshold(gs),
                                        !.points_earned = PointsFromScore(gs, p)]
                      r == ApplyScores(resp.individual_scores, 1, ops)
                  IN  IF r.ok
                      THEN [ok |-> TRUE, group_answer |-> ga1, opinions |-> r.opinions]
                      ELSE FallbackGrade(p, ga1, r.opinions)

\* One turn of the loop of grade_group_test on a graded question q: the
\* GroupAnswer and opinion tables after grade_question_with_context saved.
GradeStep(q, pts, ans, ops, resp) ==
    LET g == GradeQuestionWithContext(pts[q], ans[q], QuestionOpinions(ops, q), resp)
    IN  [ok |-> g.ok,
         answers |-> [ans EXCEPT ![q] = g.group_answer],
         opinions |-> [r \in Questions |-> [s \in Students |->
                         IF <<r, s>> \in DOMAIN g.opinions
                         THEN g.opinions[<<r, s>>]
                         ELSE ops[r][s]]]]

\* ------------------------------------------------ calculate_final_scores
\* One answer's share of total_percentage.  The division is Python's: it
\* raises ZeroDivisionError for a question worth 0 points.
AnswerPercentage(a, p) ==
    IF a.is_correct THEN RatInt(100) ELSE Rat(a.points_earned * 100, p)

\* The loop over the attempt's GroupAnswers divides by zero.
DividesByZero(ans, pts) ==
    \E q \in Questions : ans[q].exists /\ ~ans[q].is_correct /\ pts[q] = 0

\* total_percentage after the answers of questions q.. are added to acc.
RECURSIVE SumPercentages(_, _, _, _)
SumPercentages(ans, pts, q, acc) ==
    IF q > NumQuestions THEN acc
    ELSE SumPercentages(ans, pts, q + 1,
             IF ans[q].exists THEN RatAdd(acc, AnswerPercentage(ans[q], pts[q]))
             ELSE acc)

\* The mean taken over every question of the test instead of over the
\* attempt's GroupAnswers.
GroupScoreOverAllQuestions(ans, pts) ==
    RatDivInt(SumPercentages(ans, pts, 1, RatInt(0)), NumQuestions)

GroupScore(ans, pts) ==
    LET n == Cardinality({q \in Questions : ans[q].exists})
    IN  IF n > 0 THEN RatDivInt(SumPercentages(ans, pts, 1, RatInt(0)), n)
        ELSE RatInt(0)

\* sum(opinion.score_percentage ...) over the student's opinions of questions q..
RECURSIVE SumScores(_, _, _)
SumScores(ops, s, q) ==
    IF q > NumQuestions THEN 0
    ELSE (IF ops[q][s].exists THEN ops[q][s].score_percentage ELSE 0)
         + SumScores(ops, s, q + 1)

\* The mean taken over every question of the test instead of over the
\* opinions the student wrote.
MemberScoreOverAllQuestions(ops, s) == Rat(SumScores(ops, s, 1), NumQuestions)

MemberScore(ops, s) ==
    LET n == Cardinality({q \in Questions : ops[q][s].exists})
    IN  IF n > 0 THEN Rat(SumScores(ops, s, 1), n) ELSE RatInt(0)

\* Each member's new score averaged with the stored one.
ScoredMembersAveragedWithStored(mem, ops) ==
    [s \in Students |->
        IF mem[s].exists
        THEN [mem[s] EXCEPT !.individual_score_percentage =
                 RatDivInt(RatAdd(@, MemberScore(ops, s)), 2)]
        ELSE mem[s]]

\* The GroupMember rows after the loop over the attempt's members.
ScoredMembers(mem, ops) ==
    [s \in Students |->
        IF mem[s].exists
        THEN [mem[s] EXCEPT !.individual_score_percentage = MemberScore(ops, s)]
        ELSE mem[s]]

\* ------------------------------------------------ take_group_test_view
\* GroupMember.objects.get_or_create at the head of every request.
Joined(mem, s) == IF mem[s].exists THEN mem ELSE [mem EXCEPT ![s] = NewMember]

\* Question.order: the group-test creation view stores number - 1.
Order(q) == q - 1

\* The opinions of the question not looked at: every question with a
\* GroupAnswer is graded.
NextAnswered(o0, ans, ops) ==
    LET c == {q \in Questions : Order(q) > o0 /\ ans[q].exists}
    IN  IF c = {} THEN 0
        ELSE CHOOSE q \in c : \A r \in c : Order(q) <= Order(r)

\* The next question after position o0, in ascending order, that
\* grade_group_test grades: it has a GroupAnswer and at least one opinion.
\* 0 when the loop ends.
NextGraded(o0, ans, ops) ==
    LET c == {q \in Questions :
                /\ Order(q) > o0
                /\ ans[q].exists
                /\ DOMAIN QuestionOpinions(ops, q) # {}}
    IN  IF c = {} THEN 0
        ELSE CHOOSE q \in c : \A r \in c : Order(q) <= Order(r)

\* The loop given up after a question that fell back.
NextAfterAbortOnFailure(ok, o0, ans, ops) ==
    IF ok THEN NextGraded(o0, ans, ops) ELSE 0

\* A question that fell back is graded again.
NextAfterRetryOnFailure(ok, o0, ans, ops) ==
    IF ok THEN NextGraded(o0, ans, ops) ELSE NextGraded(o0 - 1, ans, ops)

\* Where the loop goes after grade_question_with_context returned ok (True
\* on success, False after the fallback): the return value is ignored.
NextAfter(ok, o0, ans, ops) == NextGraded(o0, ans, ops)

\* The loop of grade_group_test taken in the order f (a sequence of all the
\* questions) from position i on, each graded question with the outcome
\* given for it: the GroupAnswer and opinion tables when the loop ends.
RECURSIVE GradeInOrder(_, _, _, _, _)
GradeInOrder(f, i, ans, ops, outcome) ==
    IF i > Len(f) THEN [answers |-> ans, opinions |-> ops]
    ELSE LET q == f[i]
         IN  IF ans[q].exists /\ DOMAIN QuestionOpinions(ops, q) # {}
             THEN LET g == GradeStep(q, points, ans, ops, outcome[q])
                  IN  GradeInOrder(f, i + 1, g.answers, g.opinions, outcome)
             ELSE GradeInOrder(f, i + 1, ans, ops, outcome)

\* The end of the finish_test request once the loop over the questions is
\* over: calculate_final_scores, then the view marks the attempt completed.
\* A ZeroDivisionError leaves calculate_final_scores before anything is
\* saved and reaches the caller of the view.
FinishPass(ans, ops, mem) ==
    IF DividesByZero(ans, points)
    THEN /\ pc' = "raised"
         /\ members' = mem
         /\ UNCHANGED << group_score_percentage, is_completed >>
    ELSE /\ pc' = "done"
         /\ group_score_percentage' = GroupScore(ans, points)
         /\ members' = ScoredMembers(mem, ops)
         /\ is_completed' = TRUE

\* GET: the student opens the page and joins the open attempt.
OpenPage(s) ==
    /\ pc = "idle"
    /\ ~members[s].exists
    /\ members' = Joined(members, s)
    /\ UNCHANGED << points, groupAnswers, opinions, group_score_percentage,
                    is_completed, pc, cur, modelOutcome, choiceVars, attemptVars, joinVars >>

\* POST submit_opinion: update_or_create keeps an existing row's score.
SubmitOpinion(s, q) ==
    /\ pc = "idle"
    /\ LET ops == [opinions EXCEPT ![q][s] = IF @.exists THEN @ ELSE NewOpinion]
           all == \A r \in Questions : ops[r][s].exists
           mem == Joined(members, s)
       IN  /\ opinions' = ops
           /\ members' = IF all
                         THEN [mem EXCEPT ![s].has_submitted_all_opinions = TRUE]
                         ELSE mem
    /\ UNCHANGED << points, groupAnswers, group_score_percentage, is_completed,
                    pc, cur, modelOutcome, choiceVars, attemptVars, joinVars >>

\* POST submit_group_answer: the first answer of a question is kept.
SubmitGroupAnswer(s, q) ==
    /\ pc = "idle"
    /\ members' = Joined(members, s)
    /\ groupAnswers' = IF groupAnswers[q].exists THEN groupAnswers
                       ELSE [groupAnswers EXCEPT ![q] = NewAnswer]
    /\ UNCHANGED << points, opinions, group_score_percentage, is_completed,
                    pc, cur, modelOutcome, choiceVars, attemptVars, joinVars >>

\* POST finish_test: grade_group_test runs up to its first model call, or to
\* its end when no question is graded.
FinishTest(s) ==
    /\ pc = "idle"
    /\ LET n == NextGraded(-1, groupAnswers, opinions)
           mem == Joined(members, s)
       IN  IF n # 0
           THEN /\ pc' = "awaiting"
                /\ cur' = n
                /\ members' = mem
                /\ UNCHANGED << group_score_percentage, is_completed >>
           ELSE /\ FinishPass(groupAnswers, opinions, mem)
                /\ cur' = 0
    /\ UNCHANGED << points, groupAnswers, opinions, modelOutcome, choiceVars, attemptVars, joinVars >>

\* The model call of question cur returns (or fails) with resp: the question
\* is graded, and the pass goes on to its next model call or to its end.
ModelResponds(resp) ==
    /\ pc = "awaiting"
    /\ LET g == GradeStep(cur, points, groupAnswers, opinions, resp)
           ans == g.answers
           ops == g.opinions
           n == NextAfter(g.ok, Order(cur), ans, ops)
       IN  /\ groupAnswers' = ans
           /\ opinions' = ops
           /\ modelOutcome' = [modelOutcome EXCEPT ![cur] = resp]
           /\ cur' = n
           /\ IF n # 0
              THEN UNCHANGED << pc, members, group_score_percentage,
                                is_completed >>
              ELSE FinishPass(ans, ops, members)
    /\ UNCHANGED << points, choiceVars, attemptVars, joinVars >>

\* calculate_final_scores called a second time on the graded attempt, with
\* no grading in between.
Recalculate ==
    /\ pc = "done"
    /\ ~DividesByZero(groupAnswers, points)
    /\ pc' = "recalculated"
    /\ group_score_percentage' = GroupScore(groupAnswers, points)
    /\ members' = ScoredMembers(members, opinions)
    /\ UNCHANGED << points, groupAnswers, opinions, is_completed, cur,
                    modelOutcome, choiceVars, attemptVars, joinVars >>

Next ==
    \/ \E s \in Students : OpenPage(s)
    \/ \E s \in Students, q \in Questions : SubmitOpinion(s, q)
    \/ \E s \in Students, q \in Questions : SubmitGroupAnswer(s, q)
    \/ \E s \in Students : FinishTest(s)
    \/ \E resp \in Responses : ModelResponds(resp)
    \/ Recalculate

Spec == Init /\ [][Next]_vars

\* ------------------------------------------------------------ auto_grade
ChoiceTypes == {"mcq", "truefalse"}

\* Negative marking: a wrong option costs a point.
StudentAutoGradeNegativeMarking(qn, row) ==
    IF qn.question_type \in ChoiceTypes
    THEN IF row.selected_option = qn.correct_option
         THEN [row EXCEPT !.is_correct = TRUE, !.points_earned = qn.points]
         ELSE [row EXCEPT !.is_correct = FALSE, !.points_earned = -1]
    ELSE row

\* StudentAnswer.auto_grade: a row of a multiple-choice or true/false
\* question is graded and saved; a row of any other type is left as it is.
StudentAutoGrade(qn, row) ==
    IF qn.question_type \in ChoiceTypes
    THEN IF row.selected_option = qn.correct_option
         THEN [row EXCEPT !.is_correct = TRUE, !.points_earned = qn.points]
         ELSE [row EXCEPT !.is_correct = FALSE, !.points_earned = 0]
    ELSE row

\* GroupAnswer.auto_grade without its else branch: a wrong option leaves the
\* row as it was graded before.
GroupAutoGradeKeepsCredit(qn, row) ==
    IF qn.question_type \in ChoiceTypes /\ row.selected_option = qn.correct_option
    THEN [row EXCEPT !.is_correct = TRUE, !.points_earned = qn.points]
    ELSE row

\* GroupAnswer.auto_grade: as above, and a text answer gets no points until
\* the model grades it.
GroupAutoGrade(qn, row) ==
    IF qn.question_type \in ChoiceTypes
    THEN IF row.selected_option = qn.correct_option
         THEN [row EXCEPT !.is_correct = TRUE, !.points_earned = qn.points]
         ELSE [row EXCEPT !.is_correct = FALSE, !.points_earned = 0]
    ELSE [row EXCEPT !.points_earned = 0, !.is_correct = FALSE]

\* int(selected) accepts any integer: -1 stands for the options that are not
\* an index of the question's option list.
SubmittedOptions == -1..MaxOption

\* The student submits option o: update_or_create stores it on the row of
\* (attempt, question), then the row is auto-graded.
SubmitAnswer(o) ==
    /\ studentAnswer' = StudentAutoGrade(question,
                            [studentAnswer EXCEPT !.exists = TRUE,
                                                  !.selected_option = o])
    /\ UNCHANGED << question, choiceAnswer, groupVars, attemptVars, joinVars >>

\* A group answer selecting option o is stored and auto-graded.
GradeGroupChoice(o) ==
    /\ choiceAnswer' = GroupAutoGrade(question,
                           [choiceAnswer EXCEPT !.exists = TRUE,
                                                !.selected_option = o])
    /\ UNCHANGED << question, studentAnswer, groupVars, attemptVars, joinVars >>

AutoGradeInit ==
    /\ ChoiceInit
    /\ points = [q \in Questions |-> 10]
    /\ groupAnswers = [q \in Questions |-> NoAnswer]
    /\ opinions = [q \in Questions |-> [s \in Students |-> NoOpinion]]
    /\ members = [s \in Students |-> NoMember]
    /\ group_score_percentage = RatInt(0)
    /\ is_completed = FALSE
    /\ pc = "idle"
    /\ cur = 0
    /\ modelOutcome = [q \in Questions |-> NotCalled]
    /\ NoAttempts

AutoGradeNext ==
    \/ \E o \in SubmittedOptions : SubmitAnswer(o)
    \/ \E o \in SubmittedOptions : GradeGroupChoice(o)

SpecAutoGrade == AutoGradeInit /\ [][AutoGradeNext]_vars

\* ------------------------------------- every way a points_earned is set
\* The auto-graded question next to the group attempt: a multiple-choice
\* question worth 10 points or a text question worth 1.
GradedKinds ==
    { [question_type |-> "mcq", correct_option |-> 1, points |-> 10],
      [question_type |-> "text", correct_option |-> 0, points |-> 1] }

GradingInit ==
    /\ GroupInit
    /\ question \in GradedKinds
    /\ studentAnswer = NoChoice
    /\ choiceAnswer = NoChoice
    /\ NoAttempts

\* The grading pass of the group attempt and the auto-grader side by side.
GradingNext == Next \/ AutoGradeNext

SpecGrading == GradingInit /\ [][GradingNext]_vars

\* ------------------------------------------------------ StudentAttempt
\* The questions an assigned test is made of.
QuestionKinds ==
    { [question_type |-> "mcq", correct_option |-> 1, points |-> 1],
      [question_type |-> "truefalse", correct_option |-> 0, points |-> 10] }

\* Assignment.allow_retakes and Assignment.max_attempts.
AssignmentSettings == { << TRUE, 0 >>, << FALSE, 0 >>, << TRUE, 1 >> }

\* The options a student can select.
AnswerOptions == 0..1

\* sum(q.points for q in questions), from question q on.
RECURSIVE TotalPoints(_, _)
TotalPoints(t, q) ==
    IF q > NumQuestions THEN 0 ELSE t[q].points + TotalPoints(t, q + 1)

\* StudentAttempt.objects.filter(assignment=..., student=s)
AttemptsOf(rows, s) == {i \in 1..Len(rows) : rows[i].student = s}

\* .order_by('-started_at').first(): the student's latest attempt, 0 if none.
LatestAttempt(rows, s) ==
    IF AttemptsOf(rows, s) = {} THEN 0
    ELSE CHOOSE i \in AttemptsOf(rows, s) : \A j \in AttemptsOf(rows, s) : j <= i

\* The check of max_attempts left out.
MayStartWithoutLimit(existing) == ~(~allow_retakes /\ existing > 0)

\* The two checks on the count of the student's attempts pass.
MayStart(existing) ==
    /\ ~(~allow_retakes /\ existing > 0)
    /\ ~(max_attempts > 0 /\ existing >= max_attempts)

\* StudentAttempt.objects.create(...) with the model's defaults; rank is the
\* rank the finish request returned for the attempt (0: none returned).
NewAttempt(s, n, total) ==
    [student |-> s, attempt_number |-> n, auto_score |-> 0,
     total_possible |-> total, is_completed |-> FALSE, is_terminated |-> FALSE,
     finished_at |-> 0, questions_answered |-> 0, current_question_index |-> 0,
     rank |-> 0]

\* The constraint left out of the table.
UniqueTogetherUnenforced(rows, row) == TRUE

\* unique_together = ['assignment', 'student', 'attempt_number']: the
\* database accepts the row.
UniqueTogether(rows, row) ==
    ~\E i \in 1..Len(rows) : /\ rows[i].student = row.student
                             /\ rows[i].attempt_number = row.attempt_number

\* The table after create(): a row the constraint rejects raises
\* IntegrityError and is not stored.
CreateAttempt(rows, row) ==
    IF UniqueTogether(rows, row) THEN Append(rows, row) ELSE rows

\* The StudentAnswer table with a new row for (a, q): the table is listed
\* by attempt and question, a new row after the rows of the same key.
InsertAnswer(rows, a, q, o) ==
    LET at == 1 + Cardinality({i \in 1..Len(rows) :
                     \/ rows[i].attempt < a
                     \/ rows[i].attempt = a /\ rows[i].question <= q})
        row == [attempt |-> a, question |-> q, selected_option |-> o,
                is_correct |-> FALSE, points_earned |-> 0]
    IN  [rows |-> [i \in 1..(Len(rows) + 1) |->
                     IF i < at THEN rows[i] ELSE IF i = at THEN row ELSE rows[i - 1]],
         at |-> at]

\* A new row on every call.
UpdateOrCreateAlwaysCreates(rows, a, q, o) == InsertAnswer(rows, a, q, o)

\* StudentAnswer.objects.update_or_create(attempt=a, question=q,
\* defaults={'selected_option': o}): the table and the position of the row.
UpdateOrCreate(rows, a, q, o) ==
    LET m == {i \in 1..Len(rows) : rows[i].attempt = a /\ rows[i].question = q}
    IN  IF m = {} THEN InsertAnswer(rows, a, q, o)
        ELSE LET i == CHOOSE x \in m : \A y \in m : x <= y
             IN  [rows |-> [rows EXCEPT ![i].selected_option = o], at |-> i]

\* update_or_create followed by answer.auto_grade().
SaveAnswer(rows, a, q, o) ==
    LET u == UpdateOrCreate(rows, a, q, o)
    IN  [rows |-> [u.rows EXCEPT ![u.at] = StudentAutoGrade(test[q], @)],
         at |-> u.at]

\* sum(answer.points_earned for answer in attempt.answers.all()), from row i on.
RECURSIVE ScoreOf(_, _, _)
ScoreOf(rows, a, i) ==
    IF i > Len(rows) THEN 0
    ELSE (IF rows[i].attempt = a THEN rows[i].points_earned ELSE 0)
         + ScoreOf(rows, a, i + 1)

\* The loop of take_test_new_view over the questions from q on: each
\* question with a selection in the form is saved and graded and its points
\* are added to total_score.
RECURSIVE SaveSelections(_, _, _, _)
SaveSelections(rows, a, sel, q) ==
    IF q > NumQuestions
    THEN [rows |-> rows, total_score |-> 0, questions_answered |-> 0]
    ELSE IF q \in DOMAIN sel
         THEN LET u == SaveAnswer(rows, a, q, sel[q])
                  r == SaveSelections(u.rows, a, sel, q + 1)
              IN  [rows |-> r.rows,
                   total_score |-> u.rows[u.at].points_earned + r.total_score,
                   questions_answered |-> 1 + r.questions_answered]
         ELSE SaveSelections(rows, a, sel, q + 1)

\* attempt.total_possible = questions_answered on termination.
TerminatedTotal(row, questions_answered) == questions_answered

\* The attempt row as take_test_new_view saves it after grading the form.
SubmittedAttempt(row, r, terminated, t) ==
    LET done == [row EXCEPT !.auto_score = r.total_score,
                            !.is_completed = TRUE,
                            !.finished_at = t,
                            !.questions_answered = r.questions_answered]
    IN  IF terminated
        THEN [done EXCEPT !.is_terminated = TRUE,
                          !.total_possible = TerminatedTotal(done, r.questions_answered)]
        ELSE done

\* StudentAttempt.calculate_percentage
CalculatePercentage(row) ==
    IF row.total_possible = 0 THEN RatInt(0)
    ELSE Rat(RoundHalfEven(row.auto_score * 10000, row.total_possible), 100)

\* The rank finish returns: one more than the number of completed attempts
\* of the assignment with a higher auto_score.
FinishRank(rows, score) ==
    1 + Cardinality({i \in 1..Len(rows) : rows[i].is_completed /\ rows[i].auto_score > score})

\* The loop of leaderboard over the completed attempts, latest start first
\* (Meta.ordering), from row i down: student_best as the attempts it holds, in
\* the order its keys were inserted.  A student's entry is replaced only by
\* an attempt with a higher auto_score.
RECURSIVE StudentBest(_, _, _)
StudentBest(rows, i, best) ==
    IF i = 0 THEN best
    ELSE IF ~rows[i].is_completed THEN StudentBest(rows, i - 1, best)
    ELSE LET m == {k \in 1..Len(best) : rows[best[k]].student = rows[i].student}
         IN  IF m = {} THEN StudentBest(rows, i - 1, Append(best, i))
             ELSE LET k == CHOOSE x \in m : TRUE
                  IN  IF rows[i].auto_score > rows[best[k]].auto_score
                      THEN StudentBest(rows, i - 1, [best EXCEPT ![k] = i])
                      ELSE StudentBest(rows, i - 1, best)

\* The sort without reverse=True: ascending.
SortByScoreAscending(rows, best) ==
    LET place(k) == 1 + Cardinality({j \in 1..Len(best) :
                          \/ rows[best[j]].auto_score < rows[best[k]].auto_score
                          \/ /\ rows[best[j]].auto_score = rows[best[k]].auto_score
                             /\ j < k})
    IN  [p \in 1..Len(best) |-> best[CHOOSE k \in 1..Len(best) : place(k) = p]]

\* best_attempts.sort(key=lambda x: x.auto_score, reverse=True): a stable
\* sort, entries with equal scores keep their order.
SortByScore(rows, best) ==
    LET place(k) == 1 + Cardinality({j \in 1..Len(best) :
                          \/ rows[best[j]].auto_score > rows[best[k]].auto_score
                          \/ /\ rows[best[j]].auto_score = rows[best[k]].auto_score
                             /\ j < k})
    IN  [p \in 1..Len(best) |-> best[CHOOSE k \in 1..Len(best) : place(k) = p]]

\* The leaderboard of the assignment: the attempts listed, the entry at
\* position r with rank r.
Leaderboard(rows) == SortByScore(rows, StudentBest(rows, Len(rows), << >>))

\* A start request can be taken on: a slot is free and the table has room.
FreeSlots == {n \in Slots : ~starting[n].active}

HasRoom ==
    Len(attempts) + Cardinality(Slots \ FreeSlots) < MaxAttemptRows

FirstFree == CHOOSE n \in FreeSlots : \A m \in FreeSlots : n <= m

\* POST start_attempt, up to the count of the student's attempts: a request
\* that passes both checks goes on to create its attempt.
StartAttemptCount(s) ==
    /\ FreeSlots # {} /\ HasRoom
    /\ LET existing == Cardinality(AttemptsOf(attempts, s))
       IN  /\ MayStart(existing)
           /\ starting' = [starting EXCEPT ![FirstFree] =
                  [active |-> TRUE, student |-> s, existing |-> existing, via |-> "api"]]
    /\ UNCHANGED << test, allow_retakes, max_attempts, attempts, answers, now,
                    groupVars, choiceVars, joinVars >>

\* POST start_attempt, the rest: the attempt is created with the number
\* after the count.
StartAttemptCreate(n) ==
    /\ starting[n].active /\ starting[n].via = "api"
    /\ attempts' = CreateAttempt(attempts,
                       NewAttempt(starting[n].student, starting[n].existing + 1,
                                  TotalPoints(test, 1)))
    /\ starting' = [starting EXCEPT ![n] = NoStart]
    /\ UNCHANGED << test, allow_retakes, max_attempts, answers, now,
                    groupVars, choiceVars, joinVars >>

\* POST submit_answer on an attempt that is not completed: the answer is
\* saved and graded and the attempt's current_question_index goes up by one.
SubmitAttemptAnswer(a, q, o) ==
    /\ a \in 1..Len(attempts)
    /\ ~attempts[a].is_completed
    /\ attempts[a].current_question_index < MaxSubmissions
    /\ answers' = SaveAnswer(answers, a, q, o).rows
    /\ attempts' = [attempts EXCEPT ![a].current_question_index = @ + 1]
    /\ UNCHANGED << test, allow_retakes, max_attempts, starting, now,
                    groupVars, choiceVars, joinVars >>

\* POST finish on an attempt that is not completed.
FinishAttempt(a) ==
    /\ a \in 1..Len(attempts)
    /\ ~attempts[a].is_completed
    /\ LET total_score == ScoreOf(answers, a, 1)
           rows == [attempts EXCEPT ![a].auto_score = total_score,
                                    ![a].is_completed = TRUE,
                                    ![a].finished_at = now + 1]
       IN  attempts' = [rows EXCEPT ![a].rank = FinishRank(rows, total_score)]
    /\ now' = now + 1
    /\ UNCHANGED << test, allow_retakes, max_attempts, answers, starting,
                    groupVars, choiceVars, joinVars >>

\* The forms take_test_new_view can receive: a selection for some of the
\* questions.
Selections == UNION {[Q -> AnswerOptions] : Q \in SUBSET Questions}

\* POST to take_test_new_view by a student whose latest attempt is open: the
\* form is graded on that attempt, which is completed (terminated: the
\* anti-cheat script submitted the form).
TakeTestSubmit(s, sel, terminated) ==
    /\ LatestAttempt(attempts, s) # 0
    /\ ~attempts[LatestAttempt(attempts, s)].is_completed
    /\ LET a == LatestAttempt(attempts, s)
           r == SaveSelections(answers, a, sel, 1)
       IN  /\ answers' = r.rows
           /\ attempts' = [attempts EXCEPT ![a] =
                              SubmittedAttempt(@, r, terminated, now + 1)]
    /\ now' = now + 1
    /\ UNCHANGED << test, allow_retakes, max_attempts, starting,
                    groupVars, choiceVars, joinVars >>

\* POST to take_test_new_view by a student with no open attempt, up to the
\* count of the student's attempts.
TakeTestCount(s) ==
    /\ FreeSlots # {} /\ HasRoom
    /\ IF LatestAttempt(attempts, s) = 0 THEN TRUE
       ELSE attempts[LatestAttempt(attempts, s)].is_completed
    /\ LET existing == Cardinality(AttemptsOf(attempts, s))
       IN  /\ MayStart(existing)
           /\ starting' = [starting EXCEPT ![FirstFree] =
                  [active |-> TRUE, student |-> s, existing |-> existing, via |-> "web"]]
    /\ UNCHANGED << test, allow_retakes, max_attempts, attempts, answers, now,
                    groupVars, choiceVars, joinVars >>

\* The rest of that request: the attempt is created, the form is graded on
\* it and it is completed.  An IntegrityError from create() ends the request.
TakeTestCreate(n, sel, terminated) ==
    /\ starting[n].active /\ starting[n].via = "web"
    /\ starting' = [starting EXCEPT ![n] = NoStart]
    /\ LET row == NewAttempt(starting[n].student, starting[n].existing + 1,
                             TotalPoints(test, 1))
       IN  IF UniqueTogether(attempts, row)
           THEN LET a == Len(attempts) + 1
                    r == SaveSelections(answers, a, sel, 1)
                IN  /\ answers' = r.rows
                    /\ attempts' = Append(attempts,
                                       SubmittedAttempt(row, r, terminated, now + 1))
                    /\ now' = now + 1
           ELSE UNCHANGED << attempts, answers, now >>
    /\ UNCHANGED << test, allow_retakes, max_attempts, groupVars, choiceVars, joinVars >>

\* An assignment of any test under any settings, the group attempt and the
\* auto-graded question left alone.
AttemptsInit ==
    /\ test \in [Questions -> QuestionKinds]
    /\ \E st \in AssignmentSettings : allow_retakes = st[1] /\ max_attempts = st[2]
    /\ attempts = << >>
    /\ answers = << >>
    /\ starting = [n \in Slots |-> NoStart]
    /\ now = 0
    /\ points = [q \in Questions |-> 10]
    /\ groupAnswers = [q \in Questions |-> NoAnswer]
    /\ opinions = [q \in Questions |-> [s \in Students |-> NoOpinion]]
    /\ members = [s \in Students |-> NoMember]
    /\ group_score_percentage = RatInt(0)
    /\ is_completed = FALSE
    /\ pc = "idle"
    /\ cur = 0
    /\ modelOutcome = [q \in Questions |-> NotCalled]
    /\ question = [question_type |-> "mcq", correct_option |-> 0, points |-> 1]
    /\ studentAnswer = NoChoice
    /\ choiceAnswer = NoChoice
    /\ NoJoins

AttemptsNext ==
    \/ \E s \in Students : StartAttemptCount(s)
    \/ \E n \in Slots : StartAttemptCreate(n)
    \/ \E a \in 1..MaxAttemptRows, q \in Questions, o \in AnswerOptions :
          SubmitAttemptAnswer(a, q, o)
    \/ \E a \in 1..MaxAttemptRows : FinishAttempt(a)
    \/ \E s \in Students, sel \in Selections, terminated \in BOOLEAN :
          TakeTestSubmit(s, sel, terminated)
    \/ \E s \in Students : TakeTestCount(s)
    \/ \E n \in Slots, sel \in Selections, terminated \in BOOLEAN :
          TakeTestCreate(n, sel, terminated)

SpecAttempts == AttemptsInit /\ [][AttemptsNext]_vars

\* ------------------------------------- take_group_test_view, request by
\* request.  The attempts here have no GroupAnswer and no opinion: a grading
\* pass makes no model call and every score it stores is 0, so that only the
\* flags and the members of the attempts are kept.
GroupSizes == {1, 10}

\* The actions a request can carry ("get": a page request).
RequestActions == {"get", "start_test", "finish_test"}

\* GroupAttempt.objects.create(group_test=...): no member yet.
NewGroupAttempt == [is_started |-> FALSE, is_completed |-> FALSE, members |-> {}]

\* GroupAttempt.objects.filter(group_test=..., is_completed=False).first()
\* under Meta.ordering (-created_at): the latest open attempt, 0 if none.
OpenAttempts(rows) == {i \in 1..Len(rows) : ~rows[i].is_completed}

CurrentAttempt(rows) ==
    IF OpenAttempts(rows) = {} THEN 0
    ELSE CHOOSE i \in OpenAttempts(rows) : \A j \in OpenAttempts(rows) : j <= i

\* Model.save(): every field of the object in memory is written to its row.
SaveAttempt(rows, a, obj) ==
    [rows EXCEPT ![a].is_started = obj.is_started,
                 ![a].is_completed = obj.is_completed]

\* The requests that found no open attempt and have not created theirs yet.
Creating == {s \in Students : requests[s].pc = "resolved" /\ requests[s].attempt = 0}

\* The page the GET part of the view renders from the object in memory.
RenderedPage(obj) ==
    IF ~obj.is_started THEN "waiting"
    ELSE IF ~obj.is_completed THEN "test"
    ELSE "results"

\* The limit taken as one more than max_group_size.
GroupIsFullOffByOne(created, current_size) ==
    created /\ current_size > max_group_size + 1

\* if created and current_size > group_test.max_group_size
GroupIsFull(created, current_size) == created /\ current_size > max_group_size

\* The head of the view: the request of student s looks for the open
\* attempt of the group test.
ResolveAttempt(s, action) ==
    /\ requests[s].pc = "none"
    /\ LET a == CurrentAttempt(groupAttempts)
       IN  /\ a = 0 => Len(groupAttempts) + Cardinality(Creating) < MaxGroupAttempts
           /\ requests' = [requests EXCEPT ![s] =
                  [pc |-> "resolved", action |-> action, attempt |-> a,
                   obj |-> IF a = 0 THEN NoObject
                           ELSE [is_started |-> groupAttempts[a].is_started,
                                 is_completed |-> groupAttempts[a].is_completed],
                   created |-> FALSE, current_size |-> 0]]
    /\ UNCHANGED << max_group_size, groupAttempts, pages, groupVars, choiceVars, attemptVars >>

\* The request creates an attempt if it found none, then get_or_create
\* makes its student a member of the attempt it holds.
JoinAttempt(s) ==
    /\ requests[s].pc = "resolved"
    /\ LET rows == IF requests[s].attempt = 0
                   THEN Append(groupAttempts, NewGroupAttempt)
                   ELSE groupAttempts
           a == IF requests[s].attempt = 0 THEN Len(rows) ELSE requests[s].attempt
       IN  /\ groupAttempts' = [rows EXCEPT ![a].members = @ \cup {s}]
           /\ requests' = [requests EXCEPT ![s].pc = "joined",
                                           ![s].attempt = a,
                                           ![s].created = s \notin rows[a].members]
    /\ UNCHANGED << max_group_size, pages, groupVars, choiceVars, attemptVars >>

\* current_size = current_attempt.members.count()
CountMembers(s) ==
    /\ requests[s].pc = "joined"
    /\ requests' = [requests EXCEPT
           ![s].pc = "counted",
           ![s].current_size = Cardinality(groupAttempts[requests[s].attempt].members)]
    /\ UNCHANGED << max_group_size, groupAttempts, pages, groupVars, choiceVars, attemptVars >>

\* The group size check, then the action of the request: a new member over
\* the limit is deleted and sent to the dashboard; start_test on an attempt
\* read as not started marks it started and saves it; finish_test enters
\* grade_group_test; any other request is answered with a page.
HandleRequest(s) ==
    /\ requests[s].pc = "counted"
    /\ LET r == requests[s]
           a == r.attempt
       IN  IF GroupIsFull(r.created, r.current_size)
           THEN /\ groupAttempts' = [groupAttempts EXCEPT ![a].members = @ \ {s}]
                /\ requests' = [requests EXCEPT ![s] = NoRequest]
                /\ pages' = [pages EXCEPT ![s] = "dashboard"]
           ELSE IF r.action = "start_test" /\ ~r.obj.is_started
           THEN /\ groupAttempts' = SaveAttempt(groupAttempts, a,
                                        [r.obj EXCEPT !.is_started = TRUE])
                /\ requests' = [requests EXCEPT ![s] = NoRequest]
                /\ pages' = [pages EXCEPT ![s] = "redirect"]
           ELSE IF r.action = "finish_test"
           THEN /\ requests' = [requests EXCEPT ![s].pc = "grading"]
                /\ UNCHANGED << groupAttempts, pages >>
           ELSE /\ requests' = [requests EXCEPT ![s] = NoRequest]
                /\ pages' = [pages EXCEPT ![s] = RenderedPage(r.obj)]
                /\ UNCHANGED groupAttempts
    /\ UNCHANGED << max_group_size, groupVars, choiceVars, attemptVars >>

\* The end of grade_group_test: calculate_final_scores stores the group
\* score on the object in memory and saves it.
SaveFinalScores(s) ==
    /\ requests[s].pc = "grading"
    /\ groupAttempts' = SaveAttempt(groupAttempts, requests[s].attempt, requests[s].obj)
    /\ requests' = [requests EXCEPT ![s].pc = "graded"]
    /\ UNCHANGED << max_group_size, pages, groupVars, choiceVars, attemptVars >>

\* The end of finish_test: the attempt is marked completed and saved, and
\* the browser is sent back to the page.
CompleteAttempt(s) ==
    /\ requests[s].pc = "graded"
    /\ groupAttempts' = SaveAttempt(groupAttempts, requests[s].attempt,
                            [requests[s].obj EXCEPT !.is_completed = TRUE])
    /\ requests' = [requests EXCEPT ![s] = NoRequest]
    /\ pages' = [pages EXCEPT ![s] = "redirect"]
    /\ UNCHANGED << max_group_size, groupVars, choiceVars, attemptVars >>

\* A group test of either size nobody has opened; the graded attempt, the
\* auto-graded question and the individual attempts left alone.
RequestsInit ==
    /\ max_group_size \in GroupSizes
    /\ groupAttempts = << >>
    /\ requests = [s \in Students |-> NoRequest]
    /\ pages = [s \in Students |-> "none"]
    /\ points = [q \in Questions |-> 10]
    /\ groupAnswers = [q \in Questions |-> NoAnswer]
    /\ opinions = [q \in Questions |-> [s \in Students |-> NoOpinion]]
    /\ members = [s \in Students |-> NoMember]
    /\ group_score_percentage = RatInt(0)
    /\ is_completed = FALSE
    /\ pc = "idle"
    /\ cur = 0
    /\ modelOutcome = [q \in Questions |-> NotCalled]
    /\ question = [question_type |-> "mcq", correct_option |-> 0, points |-> 1]
    /\ studentAnswer = NoChoice
    /\ choiceAnswer = NoChoice
    /\ test = [q \in Questions |->
                 [question_type |-> "mcq", correct_option |-> 0, points |-> 1]]
    /\ allow_retakes = TRUE
    /\ max_attempts = 0
    /\ attempts = << >>
    /\ answers = << >>
    /\ starting = [n \in Slots |-> NoStart]
    /\ now = 0

RequestsNext ==
    \/ \E s \in Students, action \in RequestActions : ResolveAttempt(s, action)
    \/ \E s \in Students : JoinAttempt(s)
    \/ \E s \in Students : CountMembers(s)
    \/ \E s \in Students : HandleRequest(s)
    \/ \E s \in Students : SaveFinalScores(s)
    \/ \E s \in Students : CompleteAttempt(s)

SpecRequests == RequestsInit /\ [][RequestsNext]_vars

\* ------------------------------- requests that outlive the completion
\* The grading specification with requests that read the attempt while it
\* was open and act on it later: the view looks for the open attempt once,
\* at its head, and never again.
HeldActions == {"submit_opinion", "submit_group_answer", "finish_test"}

\* The head of the view for a POST of student s: the attempt is found open
\* and the student's GroupMember row is read (or created).
HoldRequest(s, action) ==
    /\ requests[s].pc = "none"
    /\ ~is_completed
    /\ members' = Joined(members, s)
    /\ requests' = [requests EXCEPT ![s] =
           [NoRequest EXCEPT !.pc = "counted", !.action = action, !.attempt = 1]]
    /\ UNCHANGED << points, groupAnswers, opinions, group_score_percentage,
                    is_completed, pc, cur, modelOutcome, max_group_size,
                    groupAttempts, pages, choiceVars, attemptVars >>

\* The submit_opinion branch of a request under way: update_or_create, and
\* member.save() once the student has an opinion on every question.  The
\* member object was read while the attempt was open, before any score was
\* stored: save() writes its individual_score_percentage, 0, with the flag.
HeldSubmitOpinion(s, q) ==
    /\ requests[s].pc = "counted"
    /\ requests[s].action = "submit_opinion"
    /\ LET ops == [opinions EXCEPT ![q][s] = IF @.exists THEN @ ELSE NewOpinion]
           all == \A r \in Questions : ops[r][s].exists
       IN  /\ opinions' = ops
           /\ members' = IF all
                         THEN [members EXCEPT ![s] =
                                  [NewMember EXCEPT !.has_submitted_all_opinions = TRUE]]
                         ELSE members
    /\ requests' = [requests EXCEPT ![s] = NoRequest]
    /\ UNCHANGED << points, groupAnswers, group_score_percentage, is_completed,
                    pc, cur, modelOutcome, max_group_size, groupAttempts, pages,
                    choiceVars, attemptVars >>

\* The submit_group_answer branch of a request under way.
HeldSubmitGroupAnswer(s, q) ==
    /\ requests[s].pc = "counted"
    /\ requests[s].action = "submit_group_answer"
    /\ groupAnswers' = IF groupAnswers[q].exists THEN groupAnswers
                       ELSE [groupAnswers EXCEPT ![q] = NewAnswer]
    /\ requests' = [requests EXCEPT ![s] = NoRequest]
    /\ UNCHANGED << points, opinions, members, group_score_percentage,
                    is_completed, pc, cur, modelOutcome, max_group_size,
                    groupAttempts, pages, choiceVars, attemptVars >>

\* The finish_test branch of a request under way, taken when no pass is
\* running: grade_group_test runs on the attempt whatever its flag says.
HeldFinishTest(s) ==
    /\ requests[s].pc = "counted"
    /\ requests[s].action = "finish_test"
    /\ pc # "awaiting"
    /\ LET n == NextGraded(-1, groupAnswers, opinions)
       IN  IF n # 0
           THEN /\ pc' = "awaiting"
                /\ cur' = n
                /\ UNCHANGED << members, group_score_percentage, is_completed >>
           ELSE /\ FinishPass(groupAnswers, opinions, members)
                /\ cur' = 0
    /\ requests' = [requests EXCEPT ![s] = NoRequest]
    /\ UNCHANGED << points, groupAnswers, opinions, modelOutcome, max_group_size,
                    groupAttempts, pages, choiceVars, attemptVars >>

HeldNext ==
    \/ Next
    \/ \E s \in Students, action \in HeldActions : HoldRequest(s, action)
    \/ \E s \in Students, q \in Questions : HeldSubmitOpinion(s, q)
    \/ \E s \in Students, q \in Questions : HeldSubmitGroupAnswer(s, q)
    \/ \E s \in Students : HeldFinishTest(s)

\* A group test as its creation view stores it: every question worth 10.
HeldInit == Init /\ points = [q \in Questions |-> 10]

SpecHeld == HeldInit /\ [][HeldNext]_vars

\* =================================================================== claims
\* The sum of f[x] over the elements x of the finite set S.
RECURSIVE SumOver(_, _)
SumOver(S, f) ==
    IF S = {} THEN 0
    ELSE LET x == CHOOSE y \in S : TRUE IN f[x] + SumOver(S \ {x}, f)

\* The product of f[x] over the elements x of the finite set S.
RECURSIVE ProductOver(_, _)
ProductOver(S, f) ==
    IF S = {} THEN 1
    ELSE LET x == CHOOSE y \in S : TRUE IN f[x] * ProductOver(S \ {x}, f)

\* The fraction r equals the mean of the fractions num[x] / den[x], x in S.
IsMeanOf(r, S, num, den) ==
    LET D == ProductOver(S, den)
        total == SumOver(S, [x \in S |-> num[x] * (D \div den[x])])
    IN  /\ r[2] > 0
        /\ r[1] * D * Cardinality(S) = r[2] * total

\* The grading pass is over and its scores are stored.
Aggregated == pc \in {"done", "recalculated"}

\* The questions of the attempt that have a GroupAnswer.
Answered == {q \in Questions : groupAnswers[q].exists}

\* ---- C1
\* What P1 of the specification asks of grading option o on question qn.
GradeChoice(qn, o) ==
    << o = qn.correct_option, IF o = qn.correct_option THEN qn.points ELSE 0 >>

\* C1: for a multiple-choice or true/false question with correct option c and
\* points p, a stored answer selecting o is graded (True, p) when o = c and
\* (False, 0) otherwise, with no partial credit, and the individual and the
\* group answer of the same option are graded alike.
C1_ChoiceGrading ==
    question.question_type \in ChoiceTypes =>
        /\ studentAnswer.exists =>
              << studentAnswer.is_correct, studentAnswer.points_earned >>
                  = GradeChoice(question, studentAnswer.selected_option)
        /\ choiceAnswer.exists =>
              << choiceAnswer.is_correct, choiceAnswer.points_earned >>
                  = GradeChoice(question, choiceAnswer.selected_option)
        /\ ( /\ studentAnswer.exists
             /\ choiceAnswer.exists
             /\ studentAnswer.selected_option = choiceAnswer.selected_option )
           => /\ studentAnswer.is_correct = choiceAnswer.is_correct
              /\ studentAnswer.points_earned = choiceAnswer.points_earned

\* Scenario A: four options, correct option 2, one point, option 2 submitted
\* as an individual and as a group answer.
C1_Witness ==
    /\ question = [question_type |-> "mcq", correct_option |-> 2, points |-> 1]
    /\ studentAnswer = [exists |-> TRUE, selected_option |-> 2,
                        is_correct |-> TRUE, points_earned |-> 1]
    /\ choiceAnswer = [exists |-> TRUE, selected_option |-> 2,
                       is_correct |-> TRUE, points_earned |-> 1]

\* ---- C2
\* C2: once calculate_final_scores has run, group_score_percentage is the
\* arithmetic mean, over the attempt's GroupAnswers, of 100 for a correct
\* answer and points_earned / points * 100 otherwise, and 0 when the attempt
\* has no GroupAnswer.
C2_GroupScoreIsMean ==
    Aggregated =>
        IF Answered = {} THEN group_score_percentage = RatInt(0)
        ELSE IsMeanOf(group_score_percentage, Answered,
                 [q \in Answered |-> IF groupAnswers[q].is_correct THEN 100
                                     ELSE groupAnswers[q].points_earned * 100],
                 [q \in Answered |-> IF groupAnswers[q].is_correct THEN 1
                                     ELSE points[q]])

\* A correct answer and a fallback-graded answer worth 10 points: the mean of
\* 100 and 50.
C2_Witness ==
    /\ pc = "done"
    /\ Cardinality(Answered) = 2
    /\ \E q \in Answered : groupAnswers[q].is_correct
    /\ \E q \in Answered : /\ ~groupAnswers[q].is_correct
                           /\ groupAnswers[q].points_earned = 5
                           /\ points[q] = 10
    /\ group_score_percentage = RatInt(75)

\* ---- what the model reported, read from modelOutcome
\* A model call was made for question q in the pass.
Called(q) == modelOutcome[q].kind # "none"

\* The response went through the try block without raising.
ResponseValid(resp) ==
    /\ resp.kind = "json"
    /\ resp.group_score.t # "str"
    /\ \A i \in 1..Len(resp.individual_scores) : resp.individual_scores[i].score.t # "str"

\* The number a response field reports (an absent field reads as 0).
Reported(x) == IF x.t = "num" THEN x.v ELSE 0

\* The bound of [0, 100] nearest to v, or v itself when it lies within.
NearestInRange(v) == IF v < 0 THEN 0 ELSE IF v > 100 THEN 100 ELSE v

\* The questions the pass grades: a GroupAnswer and at least one opinion.
Graded(q) == groupAnswers[q].exists /\ \E s \in Students : opinions[q][s].exists

\* The loop over the questions of the pass is over.
PassOver == pc \in {"done", "raised", "recalculated"}

\* Question q holds the fallback values.
HasFallbackValues(q) ==
    /\ ~groupAnswers[q].is_correct
    /\ 2 * groupAnswers[q].points_earned <= points[q]
    /\ points[q] < 2 * groupAnswers[q].points_earned + 2
    /\ \A s \in Students : opinions[q][s].exists =>
          /\ opinions[q][s].score_percentage = 50
          /\ opinions[q][s].ai_feedback = FallbackFeedback

\* The entries of a response that name student s.
EntriesNaming(resp, s) ==
    {i \in 1..Len(resp.individual_scores) :
        resp.individual_scores[i].student_name = FullName(s)}

\* Question q holds the values of its own model response: the group score
\* sets the flag and the points, and each opinion carries the score of the
\* last entry naming its student, or is untouched when none does.
HasResponseValues(q) ==
    LET resp == modelOutcome[q]
        gs == NearestInRange(Reported(resp.group_score))
    IN  /\ groupAnswers[q].is_correct = (gs >= 70)
        /\ groupAnswers[q].points_earned = (gs * points[q]) \div 100
        /\ \A s \in Students : opinions[q][s].exists =>
              LET idx == EntriesNaming(resp, s)
              IN  IF idx = {} THEN opinions[q][s] = NewOpinion
                  ELSE LET e == resp.individual_scores[
                                   CHOOSE i \in idx : \A j \in idx : j <= i]
                       IN  /\ opinions[q][s].score_percentage
                                 = NearestInRange(Reported(e.score))
                           /\ opinions[q][s].ai_feedback = e.feedback

\* ---- C3
\* Every question of the attempt was graded from a valid model response.
AllGradedByModel == \A q \in Questions : Called(q) /\ ResponseValid(modelOutcome[q])

\* C3 as stated: when every question is graded successfully by the model,
\* group_score_percentage is the mean of points_earned / points over the
\* questions, whatever the is_correct flags are (80 and 60 give 70).
C3_MeanOfProportions ==
    (Aggregated /\ AllGradedByModel /\ \A q \in Questions : points[q] > 0) =>
        IsMeanOf(group_score_percentage, Questions,
                 [q \in Questions |-> groupAnswers[q].points_earned * 100],
                 [q \in Questions |-> points[q]])

\* C3 (amended): when every question is graded successfully by the model and
\* the pass completes, group_score_percentage is the mean over the questions
\* of 100 for a question whose clamped model score is at least 70 and of
\* int(score / 100 * points) / points * 100 for the others: the threshold
\* does change the averaged percentage (80 and 60 give 80).
C3_ThresholdCountsAsFull ==
    (Aggregated /\ AllGradedByModel) =>
        LET score == [q \in Questions |->
                         NearestInRange(Reported(modelOutcome[q].group_score))]
        IN  IsMeanOf(group_score_percentage, Questions,
                [q \in Questions |-> IF score[q] >= 70 THEN 100
                                     ELSE ((score[q] * points[q]) \div 100) * 100],
                [q \in Questions |-> IF score[q] >= 70 THEN 1 ELSE points[q]])

\* Scenario B: model scores 80 and 60 on two 10-point questions.
C3_Witness ==
    /\ pc = "done"
    /\ points = [q \in Questions |-> 10]
    /\ AllGradedByModel
    /\ modelOutcome[1].group_score = Num(80)
    /\ modelOutcome[2].group_score = Num(60)
    /\ groupAnswers[1].points_earned = 8
    /\ groupAnswers[2].points_earned = 6
    /\ group_score_percentage = RatInt(80)

\* ---- C4
\* The questions on which student s wrote an opinion.
OpinionsBy(s) == {q \in Questions : opinions[q][s].exists}

\* C4: once calculate_final_scores has run, each member's
\* individual_score_percentage is the mean of score_percentage over all the
\* opinions the member wrote in the attempt, on whatever question, and 0
\* for a member without opinions.
C4_MemberScoreIsMean ==
    Aggregated =>
        \A s \in Students : members[s].exists =>
            IF OpinionsBy(s) = {}
            THEN members[s].individual_score_percentage = RatInt(0)
            ELSE IsMeanOf(members[s].individual_score_percentage, OpinionsBy(s),
                          [q \in OpinionsBy(s) |-> opinions[q][s].score_percentage],
                          [q \in OpinionsBy(s) |-> 1])

\* Scenario C: Amy Lee's opinions on two questions score 90 and 70, and a
\* second member wrote no opinion.
C4_Witness ==
    /\ pc = "done"
    /\ OpinionsBy("amy") = {1, 2}
    /\ {opinions[1]["amy"].score_percentage, opinions[2]["amy"].score_percentage}
          = {90, 70}
    /\ members["amy"].individual_score_percentage = RatInt(80)
    /\ members["bob"].exists
    /\ OpinionsBy("bob") = {}
    /\ members["bob"].individual_score_percentage = RatInt(0)

\* ---- C5
\* C5: if the model call fails for every question, then at the end of the
\* pass every graded question was handled, its GroupAnswer is incorrect with
\* floor(points / 2) points, and each of its opinions has score 50 and the
\* fallback feedback.
C5_AllFallback ==
    (PassOver /\ \A q \in Questions : Called(q) => modelOutcome[q] = CallFailed) =>
        \A q \in Questions : Graded(q) => (Called(q) /\ HasFallbackValues(q))

\* Two questions worth 1 and 10 points, both calls failed, two opinions each.
C5_Witness ==
    /\ pc = "done"
    /\ \A q \in Questions : modelOutcome[q] = CallFailed
    /\ \E q \in Questions : points[q] = 1 /\ groupAnswers[q].points_earned = 0
    /\ \E q \in Questions : points[q] = 10 /\ groupAnswers[q].points_earned = 5
    /\ \A q \in Questions, s \in Students :
          opinions[q][s] = [exists |-> TRUE, score_percentage |-> 50,
                            ai_feedback |-> FallbackFeedback]

\* ---- C6
\* The questions whose model call failed or whose response was rejected.
FailedQuestions == {q \in Questions : Called(q) /\ ~ResponseValid(modelOutcome[q])}

\* C6: in a pass where grading fails for exactly one question, every graded
\* question was handled, the failed one holds the fallback values, every
\* other one holds the values of its own response, and the final group
\* percentage is the mean that counts the failed question with its fallback
\* percentage floor(points / 2) / points * 100.
C6_OneFailure ==
    (PassOver /\ Cardinality(FailedQuestions) = 1) =>
        /\ \A q \in Questions : Graded(q) => Called(q)
        /\ \A q \in FailedQuestions : HasFallbackValues(q)
        /\ \A q \in Questions \ FailedQuestions : Called(q) => HasResponseValues(q)
        /\ Aggregated =>
              LET score == [q \in Answered |->
                               NearestInRange(Reported(modelOutcome[q].group_score))]
                  full == [q \in Answered |->
                               q \notin FailedQuestions /\ Called(q) /\ score[q] >= 70]
              IN  IsMeanOf(group_score_percentage, Answered,
                      [q \in Answered |->
                          IF full[q] THEN 100
                          ELSE IF q \in FailedQuestions THEN (points[q] \div 2) * 100
                          ELSE IF Called(q) THEN ((score[q] * points[q]) \div 100) * 100
                          ELSE 0],
                      [q \in Answered |-> IF full[q] THEN 1 ELSE points[q]])

\* The call of the first question fails, the second question is graded from
\* its response (score 60 on 10 points): the mean of 50 and 60.
C6_Witness ==
    /\ pc = "done"
    /\ points = [q \in Questions |-> 10]
    /\ modelOutcome[1] = CallFailed
    /\ \A q \in Questions \ {1} : modelOutcome[q].group_score = Num(60)
                                    /\ ResponseValid(modelOutcome[q])
    /\ groupAnswers[1].points_earned = 5
    /\ \A q \in Questions \ {1} : groupAnswers[q].points_earned = 6
    /\ \A q \in Questions \ {1} : \E s \in Students :
                                     opinions[q][s].score_percentage \in {70, 90}

\* ---- C7
\* C7 as stated: grade_group_test never raises, whatever the points of the
\* questions, the stored answers and opinions and the model outcomes are: no
\* pass ends with an exception reaching the caller.
C7_NeverRaises == pc # "raised"

\* ---- C8
\* The orders in which the questions can be graded.
GradingOrders ==
    {f \in [1..NumQuestions -> Questions] : \A q \in Questions : \E i \in 1..NumQuestions : f[i] = q}

\* The tables as they were when the pass began: every row ungraded.
BeforePass ==
    [answers |-> [q \in Questions |->
                     IF groupAnswers[q].exists THEN NewAnswer ELSE NoAnswer],
     opinions |-> [q \in Questions |-> [s \in Students |->
                     IF opinions[q][s].exists THEN NewOpinion ELSE NoOpinion]]]

\* C8: with the questions and the per-question model outcomes fixed, grading
\* the questions in any order ends with the same group_score_percentage and
\* the same individual_score_percentage of every member as the pass stored.
C8_OrderIndependent ==
    pc = "done" =>
        \A f \in GradingOrders :
            LET g == GradeInOrder(f, 1, BeforePass.answers, BeforePass.opinions,
                                  modelOutcome)
            IN  /\ ~DividesByZero(g.answers, points)
                /\ GroupScore(g.answers, points) = group_score_percentage
                /\ \A s \in Students : members[s].exists =>
                      MemberScore(g.opinions, s)
                          = members[s].individual_score_percentage

\* Two graded questions with different outcomes, one of them a failed call,
\* and both students with an opinion on each.
C8_Witness ==
    /\ pc = "done"
    /\ \A q \in Questions : Graded(q) /\ \A s \in Students : opinions[q][s].exists
    /\ modelOutcome[1] = CallFailed
    /\ \A q \in Questions \ {1} : ResponseValid(modelOutcome[q])
                                    /\ modelOutcome[q].group_score = Num(80)
    /\ \A s \in Students : members[s].exists
    /\ members["amy"].individual_score_percentage = RatInt(70)
    /\ members["bob"].individual_score_percentage = RatInt(60)

\* ---- C9
\* C9: a second run of calculate_final_scores with no grading in between
\* leaves group_score_percentage and every individual_score_percentage as the
\* first run stored them, and no run of calculate_final_scores changes a
\* GroupAnswer or an IndividualOpinion.
C9_Idempotent ==
    [][/\ (pc = "done" /\ pc' = "recalculated") =>
            /\ group_score_percentage' = group_score_percentage
            /\ members' = members
            /\ groupAnswers' = groupAnswers
            /\ opinions' = opinions
       /\ (pc = "idle" /\ pc' \in {"done", "raised"}) =>
            /\ groupAnswers' = groupAnswers
            /\ opinions' = opinions]_vars

\* The second run has returned on an attempt with group score 80 and a
\* member with score 80.
C9_Witness ==
    /\ pc = "recalculated"
    /\ group_score_percentage = RatInt(80)
    /\ members["amy"].exists
    /\ members["amy"].individual_score_percentage = RatInt(80)
    /\ \E q \in Questions : groupAnswers[q].exists /\ ~groupAnswers[q].is_correct

\* ---- C10
\* C10: what is persisted from a valid model response is derived from the
\* scores clamped to [0, 100]: a reported group score above 100 is stored as
\* a correct answer with all of the question's points, a negative one as an
\* incorrect answer with 0 points, and an opinion's score is 100 for a
\* reported score above 100 and 0 for a negative one; no stored opinion score
\* ever lies outside [0, 100].
C10_Clamped ==
    /\ \A q \in Questions, s \in Students : opinions[q][s].score_percentage \in 0..100
    /\ \A q \in Questions : (Called(q) /\ ResponseValid(modelOutcome[q])) =>
          LET resp == modelOutcome[q]
              gs == Reported(resp.group_score)
          IN  /\ gs > 100 => /\ groupAnswers[q].is_correct
                             /\ groupAnswers[q].points_earned = points[q]
              /\ gs < 0 => /\ ~groupAnswers[q].is_correct
                           /\ groupAnswers[q].points_earned = 0
              /\ \A s \in Students :
                    (opinions[q][s].exists /\ EntriesNaming(resp, s) # {}) =>
                        LET idx == EntriesNaming(resp, s)
                            sc == Reported(resp.individual_scores[
                                      CHOOSE i \in idx : \A j \in idx : j <= i].score)
                        IN  /\ sc > 100 => opinions[q][s].score_percentage = 100
                            /\ sc < 0 => opinions[q][s].score_percentage = 0

\* A 10-point question with reported group score 150 and student scores 120
\* and -5, and a question with reported group score -20.
C10_Witness ==
    /\ \E q \in Questions :
          /\ points[q] = 10
          /\ modelOutcome[q].group_score = Num(150)
          /\ groupAnswers[q] = [exists |-> TRUE, is_correct |-> TRUE, points_earned |-> 10]
          /\ opinions[q]["amy"].exists /\ opinions[q]["amy"].score_percentage = 100
          /\ opinions[q]["bob"].exists /\ opinions[q]["bob"].score_percentage = 0
          /\ opinions[q]["bob"].ai_feedback = ModelFeedback
    /\ \E q \in Questions :
          /\ points[q] = 10
          /\ modelOutcome[q].group_score = Num(-20)
          /\ groupAnswers[q] = [exists |-> TRUE, is_correct |-> FALSE, points_earned |-> 0]

\* ---- C11
\* The rational r lies in [0, 100].
InPercentRange(r) == r[2] > 0 /\ 0 <= r[1] /\ r[1] <= 100 * r[2]

\* C11: in every reachable state every IndividualOpinion.score_percentage,
\* every GroupMember.individual_score_percentage and the attempt's
\* group_score_percentage lie in [0, 100].
C11_ScoresInRange ==
    /\ \A q \in Questions, s \in Students :
          0 <= opinions[q][s].score_percentage /\ opinions[q][s].score_percentage <= 100
    /\ \A s \in Students : InPercentRange(members[s].individual_score_percentage)
    /\ InPercentRange(group_score_percentage)

\* A completed pass that stored both ends of the range: group score 100, a
\* member with 100 and a member with 0 from a response reporting 120 and -5.
C11_Witness ==
    /\ pc = "done"
    /\ group_score_percentage = RatInt(100)
    /\ members["amy"].exists /\ members["amy"].individual_score_percentage = RatInt(100)
    /\ members["bob"].exists /\ members["bob"].individual_score_percentage = RatInt(0)
    /\ \E q \in Questions : /\ modelOutcome[q].group_score = Num(150)
                            /\ opinions[q]["amy"].exists
                            /\ opinions[q]["bob"].exists

\* ---- C12
\* The questions graded from a valid response whose reported group score s
\* lies in 0..100 and that are worth a positive number of points.
ScoredInRange ==
    {q \in Questions :
        /\ Called(q) /\ ResponseValid(modelOutcome[q])
        /\ Reported(modelOutcome[q].group_score) \in 0..100
        /\ points[q] > 0}

\* C12 as stated: on a successful response with group score s for a question
\* worth p points, the GroupAnswer is stored with is_correct = (s >= 70) and
\* points_earned = round(s / 100 * p).
C12_PointsRounded ==
    \A q \in ScoredInRange :
        LET s == Reported(modelOutcome[q].group_score)
        IN  /\ groupAnswers[q].is_correct = (s >= 70)
            /\ groupAnswers[q].points_earned = RoundHalfEven(s * points[q], 100)

\* C12 (amended): the GroupAnswer is stored with is_correct = (s >= 70) and
\* points_earned = int(s / 100 * p), the product truncated, not rounded: e
\* with e <= s * p / 100 < e + 1.
C12_PointsTruncated ==
    \A q \in ScoredInRange :
        LET s == Reported(modelOutcome[q].group_score)
            e == groupAnswers[q].points_earned
        IN  /\ groupAnswers[q].is_correct = (s >= 70)
            /\ e * 100 <= s * points[q]
            /\ s * points[q] < (e + 1) * 100

\* A 1-point question scored 80 by the model: correct, with 0 points; and a
\* 10-point question scored 60: incorrect, with 6 points.
C12_Witness ==
    /\ \E q \in ScoredInRange :
          /\ points[q] = 1
          /\ modelOutcome[q].group_score = Num(80)
          /\ groupAnswers[q].is_correct
          /\ groupAnswers[q].points_earned = 0
    /\ \E q \in ScoredInRange :
          /\ points[q] = 10
          /\ modelOutcome[q].group_score = Num(60)
          /\ ~groupAnswers[q].is_correct
          /\ groupAnswers[q].points_earned = 6

\* ---- C13
\* The response parsed as structured data but lacks the group score or the
\* score of one of its per-student entries.
HasAbsentField(resp) ==
    /\ resp.kind = "json"
    /\ \/ resp.group_score.t = "absent"
       \/ \E i \in 1..Len(resp.individual_scores) :
             resp.individual_scores[i].score.t = "absent"

\* C13 as stated: a response that parses but lacks a required field is not
\* trusted at all: its question is graded by the fallback policy, and no
\* value taken or defaulted from the response is persisted.
C13_AbsentFieldFallsBack ==
    \A q \in Questions :
        (Called(q) /\ HasAbsentField(modelOutcome[q])) => HasFallbackValues(q)

\* ---- C14
\* C14 as stated: for every StudentAttempt reachable through start, answer
\* submission, finish and anti-cheat termination, calculate_percentage() is
\* between 0 and 100 (auto_score never exceeds total_possible), and it is 0
\* when total_possible is 0.
C14_PercentageBounds ==
    \A a \in 1..Len(attempts) :
        /\ InPercentRange(CalculatePercentage(attempts[a]))
        /\ attempts[a].auto_score <= attempts[a].total_possible
        /\ attempts[a].total_possible = 0 => CalculatePercentage(attempts[a]) = RatInt(0)

\* ---- C15
\* The completed attempts.
Completed == {a \in 1..Len(attempts) : attempts[a].is_completed}

\* The rank the leaderboard gives attempt a, 0 when it does not list it.
BoardRank(a) ==
    LET lb == Leaderboard(attempts)
        at == {p \in 1..Len(lb) : lb[p] = a}
    IN  IF at = {} THEN 0 ELSE CHOOSE p \in at : TRUE

C16_BestAttemptsRanked ==
    LET lb == Leaderboard(attempts)
    IN  /\ \A s \in Students :
              Cardinality({p \in 1..Len(lb) : attempts[lb[p]].student = s})
                  = IF AttemptsOf(attempts, s) \cap Completed = {} THEN 0 ELSE 1
        /\ \A p \in 1..Len(lb) :
              /\ lb[p] \in Completed
              /\ \A b \in AttemptsOf(attempts, attempts[lb[p]].student) \cap Completed :
                    \/ attempts[b].auto_score < attempts[lb[p]].auto_score
                    \/ /\ attempts[b].auto_score = attempts[lb[p]].auto_score
                       /\ attempts[lb[p]].finished_at <= attempts[b].finished_at
        /\ \A p, r \in 1..Len(lb) : p < r =>
              \/ attempts[lb[p]].auto_score > attempts[lb[r]].auto_score
              \/ /\ attempts[lb[p]].auto_score = attempts[lb[r]].auto_score
                 /\ attempts[lb[p]].finished_at < attempts[lb[r]].finished_at

\* ---- C19
\* The k-th attempt of student s in order of creation (k from 1).
NthAttempt(s, k) ==
    CHOOSE a \in AttemptsOf(attempts, s) :
        Cardinality({b \in AttemptsOf(attempts, s) : b <= a}) = k

AnswersOf(rows, a, q) ==
    {i \in 1..Len(rows) : rows[i].attempt = a /\ rows[i].question = q}

\* (a, q) has one row, holding option o and its grade.
HoldsGraded(rows, a, q, o) ==
    /\ Cardinality(AnswersOf(rows, a, q)) = 1
    /\ \A i \in AnswersOf(rows, a, q) :
          /\ rows[i].selected_option = o
          /\ << rows[i].is_correct, rows[i].points_earned >> = GradeChoice(test[q], o)

\* C20: after any sequence of submissions there is at most one StudentAnswer
\* per (attempt, question), graded as its selected option is graded, and a
\* submit_answer request for a question, answered before or not, leaves the
\* row of (attempt, question) holding the submitted option and its grade.
C20_ResubmissionReplaces ==
    [][/\ \A a \in 1..Len(attempts'), q \in Questions :
             /\ Cardinality(AnswersOf(answers', a, q)) <= 1
             /\ \A i \in AnswersOf(answers', a, q) :
                   HoldsGraded(answers', a, q, answers'[i].selected_option)
       /\ \A a \in 1..Len(attempts), q \in Questions, o \in AnswerOptions :
             SubmitAttemptAnswer(a, q, o) => HoldsGraded(answers', a, q, o)]_vars

\* An attempt with two submissions and one answer row: the second one
\* replaced a correct answer (1 point) by a wrong one (0 points).
C20_Witness ==
    \E a \in 1..Len(attempts), q \in Questions :
        /\ attempts[a].current_question_index = 2
        /\ \A i \in 1..Len(answers) : answers[i].attempt = a => answers[i].question = q
        /\ \E i \in AnswersOf(answers, a, q) :
              /\ answers[i].selected_option # test[q].correct_option
              /\ ~answers[i].is_correct
              /\ answers[i].points_earned = 0

\* ------------------------------------------------------------------ C17
\* The requests that are inside a grading pass of attempt a.
GradingPasses(rqs, a) ==
    {s \in Students : rqs[s].pc \in {"grading", "graded"} /\ rqs[s].attempt = a}

\* The request of student s enters grade_group_test in this step.
StartsGrading(s) == requests[s].pc # "grading" /\ requests'[s].pc = "grading"

\* C17: under any interleaving of finish_test requests, at most one grading
\* pass runs for a GroupAttempt at a time, grading is never started for an
\* attempt that is already completed, and is_completed changes from false to
\* true once: a completed attempt is never open again.
C17_OneGradingPass ==
    [][ /\ \A a \in 1..Len(groupAttempts') :
              Cardinality(GradingPasses(requests', a)) <= 1
        /\ \A s \in Students :
              StartsGrading(s) => ~groupAttempts[requests[s].attempt].is_completed
        /\ \A a \in 1..Len(groupAttempts) :
              groupAttempts[a].is_completed => groupAttempts'[a].is_completed
      ]_vars

\* ------------------------------------------------------------------ C18
\* C18: in every reachable state, under any interleaving of join requests,
\* a group test has at most one GroupAttempt that is not completed, and a
\* student who joins while such an attempt exists becomes a member of that
\* attempt instead of a new one.
C18_OneOpenAttempt ==
    [][ /\ Cardinality(OpenAttempts(groupAttempts')) <= 1
        /\ \A s \in Students :
              (JoinAttempt(s) /\ CurrentAttempt(groupAttempts) # 0) =>
                  /\ Len(groupAttempts') = Len(groupAttempts)
                  /\ s \in groupAttempts'[CurrentAttempt(groupAttempts)].members
      ]_vars


\* ------------------------------------------------------------------ C21
\* Question q has a GroupAnswer and no opinion: the pass skips it.
Skipped(q) == groupAnswers[q].exists /\ \A s \in Students : ~opinions[q][s].exists

GradedQuestions == {q \in Questions : Graded(q)}

\* C21 as stated: a question with a GroupAnswer and no opinion is skipped
\* like a question with no GroupAnswer: no model call, no score recorded,
\* and it is left out of the denominator of the group score, which is the
\* mean over the graded questions only.
C21_SkippedExcluded ==
    Aggregated =>
        /\ \A q \in Questions : Skipped(q) => ~Called(q) /\ groupAnswers[q] = NewAnswer
        /\ IF GradedQuestions = {} THEN group_score_percentage = RatInt(0)
           ELSE IsMeanOf(group_score_percentage, GradedQuestions,
                    [q \in GradedQuestions |-> IF groupAnswers[q].is_correct THEN 100
                                               ELSE groupAnswers[q].points_earned * 100],
                    [q \in GradedQuestions |-> IF groupAnswers[q].is_correct THEN 1
                                               ELSE points[q]])

\* C21 (amended): a question with a GroupAnswer and no opinion is skipped by
\* the pass: no model call is made and its GroupAnswer keeps the values it
\* was created with; unlike a question with no GroupAnswer it stays in the
\* denominator of the stored group score, where it counts as 0.
C21_SkippedCountsAsZero ==
    Aggregated =>
        /\ \A q \in Questions : Skipped(q) => ~Called(q) /\ groupAnswers[q] = NewAnswer
        /\ Answered # {} =>
              IsMeanOf(group_score_percentage, Answered,
                  [q \in Answered |-> IF Skipped(q) THEN 0
                                      ELSE IF groupAnswers[q].is_correct THEN 100
                                      ELSE groupAnswers[q].points_earned * 100],
                  [q \in Answered |-> IF Skipped(q) \/ groupAnswers[q].is_correct THEN 1
                                      ELSE points[q]])

\* One question answered without opinions, the other graded correct: the
\* stored score is 50, not 100.
C21_Witness ==
    /\ pc = "done"
    /\ \E q \in Questions : Skipped(q) /\ points[q] = 10
    /\ \E q \in Questions : Graded(q) /\ groupAnswers[q].is_correct
    /\ group_score_percentage = RatInt(50)


\* ------------------------------------------------------------------ C22
\* The response of question q has an entry whose student_name is the display
\* name of no opinion on q.
HasUnmatchedEntry(q) ==
    \E i \in 1..Len(modelOutcome[q].individual_scores) :
        \A s \in Students :
            opinions[q][s].exists =>
                FullName(s) # modelOutcome[q].individual_scores[i].student_name

\* C22: an entry of a successful model response that names no opinion of
\* the question changes no opinion and causes no failure: the question keeps
\* the values of its response, the other entries are applied to the opinions
\* they name, an opinion no entry names is left as it was, and so is every
\* opinion of a question that is not graded.
C22_UnmatchedDropped ==
    PassOver =>
        \A q \in Questions :
            ( /\ Graded(q)
              /\ Called(q)
              /\ ResponseValid(modelOutcome[q])
              /\ HasUnmatchedEntry(q) ) =>
                /\ HasResponseValues(q)
                /\ \A r \in Questions, s \in Students :
                      (~Graded(r) /\ opinions[r][s].exists) => opinions[r][s] = NewOpinion

\* The response names "Nobody" and Bob on a question both students wrote an
\* opinion on: Bob's score is stored, Amy's opinion is untouched.
C22_Witness ==
    /\ pc = "done"
    /\ \E q \in Questions :
          /\ modelOutcome[q] =
                Parsed(Num(-20), << Entry("Nobody", Num(90)), Entry("Bob Ray", Num(70)) >>)
          /\ opinions[q]["amy"] = NewOpinion
          /\ opinions[q]["bob"].exists
          /\ opinions[q]["bob"].score_percentage = 70
          /\ opinions[q]["bob"].ai_feedback = ModelFeedback


\* ------------------------------------------------------------------ C23
\* This step starts the model call of question q.
CallStarts(q) == cur' = q /\ (cur # q \/ modelOutcome' # modelOutcome)

\* C23: within one grading pass a model call starts only for a question that
\* has a GroupAnswer and an opinion and that was not called before in the
\* pass, after the calls of the questions of lower order and of no other; a
\* response arrives only for the one call in flight, and the question of a
\* failed call is not called again.
C23_OneCallPerQuestion ==
    [][ /\ \A q \in Questions :
              CallStarts(q) =>
                  /\ modelOutcome'[q] = NotCalled
                  /\ groupAnswers'[q].exists
                  /\ \E s \in Students : opinions'[q][s].exists
                  /\ \A r \in Questions :
                        modelOutcome'[r] # NotCalled => Order(r) < Order(q)
        /\ \A q \in Questions :
              modelOutcome'[q] # modelOutcome[q] =>
                  /\ pc = "awaiting"
                  /\ cur = q
                  /\ modelOutcome[q] = NotCalled
                  /\ cur' # q
      ]_vars

\* The call of the first question failed, the second question was called
\* and the pass ended.
C23_Witness ==
    /\ pc = "done"
    /\ modelOutcome[1] = CallFailed
    /\ modelOutcome[2] # NotCalled


WithinPoints(row, p) == 0 <= row.points_earned /\ row.points_earned <= p

FailsAfterSaving(resp) ==
    /\ resp.kind = "json"
    /\ resp.group_score.t # "str"
    /\ \E i \in 1..Len(resp.individual_scores) : resp.individual_scores[i].score.t = "str"

\* C27: a question whose grading fails after part of the model response was
\* saved ends in the pure fallback state: its GroupAnswer is not correct and
\* holds floor(points / 2), and every opinion of the question has score 50
\* and the fallback feedback; no value of the response is left.
C27_FallbackOverwrites ==
    PassOver =>
        \A q \in Questions :
            (Graded(q) /\ Called(q) /\ FailsAfterSaving(modelOutcome[q])) =>
                /\ groupAnswers[q].is_correct = FALSE
                /\ groupAnswers[q].points_earned = points[q] \div 2
                /\ \A s \in Students :
                      opinions[q][s].exists =>
                          /\ opinions[q][s].score_percentage = 50
                          /\ opinions[q][s].ai_feedback = FallbackFeedback

\* Group score 80 and Amy's 90 were saved before Bob's score was rejected:
\* the 10-point answer holds 5 points and both opinions hold 50.
C27_Witness ==
    /\ pc = "done"
    /\ \E q \in Questions :
          /\ points[q] = 10
          /\ modelOutcome[q] =
                Parsed(Num(80), << Entry("Amy Lee", Num(90)), Entry("Bob Ray", NotNumber) >>)
          /\ groupAnswers[q].points_earned = 5
          /\ opinions[q]["amy"].exists /\ opinions[q]["amy"].score_percentage = 50
          /\ opinions[q]["bob"].exists /\ opinions[q]["bob"].score_percentage = 50


\* ------------------------------------------------------------------ C24
\* C24: a GroupAttempt moves only along not started -> started -> completed:
\* is_started and is_completed never go back to false, and is_completed
\* becomes true only on an attempt whose is_started is true, whatever the
\* requests and their order.
C24_Lifecycle ==
    [][ \A a \in 1..Len(groupAttempts) :
            /\ groupAttempts[a].is_started => groupAttempts'[a].is_started
            /\ groupAttempts[a].is_completed => groupAttempts'[a].is_completed
            /\ (~groupAttempts[a].is_completed /\ groupAttempts'[a].is_completed)
                  => groupAttempts[a].is_started
      ]_vars

\* ------------------------------------------------------------------ C25
\* The completed attempts student s is a member of.
CompletedWith(rows, s) ==
    {a \in 1..Len(rows) : rows[a].is_completed /\ s \in rows[a].members}

\* The request of student s is answered in this step.
Answered25(s) == requests[s].pc # "none" /\ requests'[s].pc = "none"

\* C25: once an attempt was completed by finish_test, a page request of a
\* member of that attempt is served from the completed attempt, not from an
\* open or a new one, and the page rendered for a completed attempt shows
\* its results.
C25_ResultsShown ==
    [][ \A s \in Students :
            /\ ( /\ ResolveAttempt(s, "get")
                 /\ CompletedWith(groupAttempts, s) # {} )
                  => requests'[s].attempt \in CompletedWith(groupAttempts, s)
            /\ ( /\ Answered25(s)
                 /\ requests[s].action = "get"
                 /\ requests[s].attempt \in CompletedWith(groupAttempts, s) )
                  => pages'[s] = "results"
      ]_vars

\* ------------------------------------------------------------------ C30
\* The members of attempt a whose joining request is over: every member but
\* those a request still under way has just created.
SettledMembers(a) ==
    {s \in groupAttempts[a].members :
        ~(requests[s].pc \in {"joined", "counted"} /\ requests[s].created)}

\* A student who was a member of attempt a before the step is none after it.
Removed(s, a) == s \in groupAttempts[a].members /\ s \notin groupAttempts'[a].members

\* C30 as stated: whenever a request has been answered, no open attempt has
\* more GroupMember rows than max_group_size, and a student who was already a
\* member is never removed by a later join.
C30_SizeAfterEveryJoin ==
    [][ /\ (\E s \in Students : Answered25(s)) =>
              \A a \in OpenAttempts(groupAttempts') :
                  Cardinality(groupAttempts'[a].members) <= max_group_size
        /\ \A s \in Students, a \in 1..Len(groupAttempts) :
              Removed(s, a) => requests[s].created
      ]_vars

\* C30 (amended): in every state an open attempt has at most max_group_size
\* members whose joining request is over; a GroupMember row beyond that
\* belongs to a request still under way, which has yet to check the size;
\* and a member is removed only by the request that created its row.
C30_SettledWithinSize ==
    [][ /\ \A a \in OpenAttempts(groupAttempts') :
              Cardinality({s \in groupAttempts'[a].members :
                  ~(requests'[s].pc \in {"joined", "counted"} /\ requests'[s].created)})
                  <= max_group_size
        /\ \A s \in Students, a \in 1..Len(groupAttempts) :
              Removed(s, a) =>
                  /\ requests[s].created
                  /\ requests[s].attempt = a
                  /\ requests[s].pc = "counted"
      ]_vars

\* A group test for one student: Amy is the member of the open attempt and
\* Bob, who joined after her, was removed and sent to the dashboard.
C30_Witness ==
    /\ max_group_size = 1
    /\ \A s \in Students : requests[s].pc = "none"
    /\ pages["bob"] = "dashboard"
    /\ \E a \in OpenAttempts(groupAttempts) : groupAttempts[a].members = {"amy"}


\* ------------------------------------------------------------------ C28
\* C28: once the GroupAttempt is completed, its GroupAnswers, its opinions,
\* its group_score_percentage and the scores of its members never change
\* again, whatever requests follow, those that read the attempt before it was
\* completed included.
C28_FrozenOnceCompleted ==
    [][ is_completed =>
            /\ groupAnswers' = groupAnswers
            /\ opinions' = opinions
            /\ group_score_percentage' = group_score_percentage
            /\ \A s \in Students :
                  members'[s].individual_score_percentage
                      = members[s].individual_score_percentage
      ]_vars

====
